---- MODULE Spec2Model ----
(***************************************************************************)
(* The voice-presence follow controller of vermLib (plugins/followUser):   *)
(* the follow session, the location search loop, the join orchestrator,    *)
(* the mutual-guild preloader and the event ingestor, as one state         *)
(* machine.  Every handler of the controller is one action; asynchronous   *)
(* continuations (a settled preload, a timer that fires) are actions of    *)
(* their own, because other handlers run between them.                     *)
(*                                                                         *)
(* Collaborators (voice-state store, channel directory, selected-channel   *)
(* store, REST profile) are not state of the controller: what they answer  *)
(* at the moment a handler asks is an input of the action.                 *)
(***************************************************************************)
EXTENDS Integers, Sequences, FiniteSets, TLC

None == "none"

\* Identities that can be followed (never the local user) and the channels
\* and guilds of the directory.
Users == {"A", "B"}
Channels == {"c1", "c2"}
GuildList == <<"g1", "g2">>
Guilds == {GuildList[i] : i \in DOMAIN GuildList}
GuildOf(c) == IF c = "c1" THEN "g1" ELSE "g2"

\* Bounds of the model.
MaxJoins == 2      \* join attempts in flight at once
MaxBatch == 2      \* voice-state transitions in one delivered batch
MaxMutual == 1     \* preloadMutualGuilds runs in flight at once
MaxSockets == 3    \* GoXLR WebSockets whose close event is still to come
MaxHubSockets == 1 \* the same, while the hub drives the sub-plugins
MaxHubTimers == 1  \* VC Return timers pending at once

\* Program constants (milliseconds).
SettleDelay == 100
DefaultPreloadDelay == 300
PreloadDelayValues == {SettleDelay, DefaultPreloadDelay}

VARIABLES
    started,                \* hub: started.followUser
    disconnectFollow,       \* settings mirrored by updateSettings
    preloadDelay,
    enableDebugLogs,
    followedUserId,         \* the follow session
    lastFollowedChannelId,
    preloadedGuilds,
    searchInterval,         \* handle of the search loop's interval timer, or 0
    isSearching,
    intervals,              \* the interval timers that exist in the host
    attempts,               \* join attempts in flight, in timer creation order
    mutuals,                \* preloadMutualGuilds runs in flight
    out,                    \* history: the calls the last handler issued
    running,                \* GoXLR indicator: its running guard
    ws,                     \* GoXLR: id of the current WebSocket, or 0
    reconnectTimer,         \* GoXLR: the reconnect timer is pending
    uiRefreshTimer,         \* GoXLR: the debounced UI refresh is pending
    socks,                  \* GoXLR: the WebSockets that have not closed yet
    enabled,                \* hub: settings.store enable<Sub>
    startedSubs,            \* hub: the started record
    lastCall,               \* history: the hub's last lifecycle call per sub
    vcTimers                \* VC Return: the pending setTimeout callbacks

\* The state of the follow controller without out, and the state of the
\* other sub-plugins and of the hub.
followVars == <<started, disconnectFollow, preloadDelay, enableDebugLogs,
                followedUserId, lastFollowedChannelId, preloadedGuilds,
                searchInterval, isSearching, intervals, attempts, mutuals>>
goxlrVars == <<running, ws, reconnectTimer, uiRefreshTimer, socks>>
hubVars == <<enabled, startedSubs, lastCall>>
hostVars == <<goxlrVars, hubVars, vcTimers>>

vars == <<started, disconnectFollow, preloadDelay, enableDebugLogs,
          followedUserId, lastFollowedChannelId, preloadedGuilds,
          searchInterval, isSearching, intervals, attempts, mutuals,
          out, hostVars>>

----------------------------------------------------------------------------
\* Calls issued to collaborators, as the handlers issue them.

Call(call, arg) == [call |-> call, arg |-> arg]

Preload(g) == Call("preload", g)
Summaries(g) == Call("summaries", g)
Navigate(c) == Call("navigate", c)
Connect(c) == Call("connect", c)
Query(u) == Call("voiceState", u)
Toast(kind) == Call("toast", kind)
DebugLog(line) == Call("debugLog", line)

\* What the directory answers about a channel at the moment it is asked:
\* no record, a private (DM) record, a guild record with its two permission
\* bits, or a record whose permission query throws.
DirAnswers ==
    { a \in [kind : {"none", "throws", "private", "guild"},
             view : BOOLEAN, connect : BOOLEAN] :
        a.kind # "guild" => (~a.view /\ ~a.connect) }

\* What preloadGuildData finds for the channel: no record, a record without
\* guild, a guild without default channel, or a guild it can preload.
JoinEnvs == {"unloaded", "nodefault", "preload"}

----------------------------------------------------------------------------
\* The controller's mutable state as one record, so that a handler's
\* statements compose in program order.

Cur ==
    [followedUserId |-> followedUserId,
     lastFollowedChannelId |-> lastFollowedChannelId,
     preloadedGuilds |-> preloadedGuilds,
     searchInterval |-> searchInterval,
     isSearching |-> isSearching,
     intervals |-> intervals,
     attempts |-> attempts,
     mutuals |-> mutuals,
     out |-> <<>>]

Commit(s) ==
    /\ followedUserId' = s.followedUserId
    /\ lastFollowedChannelId' = s.lastFollowedChannelId
    /\ preloadedGuilds' = s.preloadedGuilds
    /\ searchInterval' = s.searchInterval
    /\ isSearching' = s.isSearching
    /\ intervals' = s.intervals
    /\ attempts' = s.attempts
    /\ mutuals' = s.mutuals
    /\ out' = s.out
    /\ UNCHANGED hostVars

\* out records the calls of the last handler, except the fire-and-forget
\* requests (channel summaries, the profile request).
Recorded(c) == c.call \notin {"summaries", "profile"}
Emit(s, calls) == [s EXCEPT !.out = @ \o SelectSeq(calls, Recorded)]

\* A canViewChannel that refuses a channel without record.
canViewChannelStrict(channelId, a) ==
    IF channelId = None THEN FALSE
    ELSE IF a.kind \in {"none", "throws"} THEN FALSE
    ELSE a.kind = "private" \/ a.view

canViewChannel(channelId, a) ==
    IF channelId = None THEN FALSE
    ELSE IF a.kind = "none" THEN TRUE
    ELSE IF a.kind = "throws" THEN FALSE
    ELSE a.kind = "private" \/ a.view

\* A canJoinChannel that is as optimistic as canViewChannel.
canJoinChannelOptimistic(channelId, a) ==
    IF channelId = None THEN FALSE
    ELSE IF a.kind = "none" THEN TRUE
    ELSE IF a.kind = "throws" THEN FALSE
    ELSE IF a.kind = "private" THEN TRUE
    ELSE a.view /\ a.connect

canJoinChannel(channelId, a) ==
    IF channelId = None THEN FALSE
    ELSE IF a.kind = "none" THEN FALSE
    ELSE IF a.kind = "throws" THEN FALSE
    ELSE IF a.kind = "private" THEN TRUE
    ELSE a.view /\ a.connect

----------------------------------------------------------------------------
\* Location search loop.

\* A stopSearching that clears the timer and leaves the flag.
stopSearchingKeepsFlag(s) ==
    [s EXCEPT !.intervals = {t \in @ : t.id # s.searchInterval},
              !.searchInterval = 0]

stopSearching(s) ==
    [s EXCEPT !.intervals = {t \in @ : t.id # s.searchInterval},
              !.searchInterval = 0,
              !.isSearching = FALSE]

FreshTimer(s) ==
    CHOOSE n \in 1..(Cardinality(s.intervals) + 1) :
        \A t \in s.intervals : t.id # n

\* A startSearching that does not stop the loop that is running.
startSearchingNoStop(s, userId) ==
    LET s1 == Emit(s, <<Toast("searching")>>)
        n == FreshTimer(s1)
    IN [s1 EXCEPT !.isSearching = TRUE,
                  !.searchInterval = n,
                  !.intervals = @ \cup {[id |-> n, userId |-> userId,
                                         unfollowed |-> FALSE]}]

startSearching(s, userId) ==
    LET s1 == Emit(stopSearching(s), <<Toast("searching")>>)
        n == FreshTimer(s1)
    IN [s1 EXCEPT !.isSearching = TRUE,
                  !.searchInterval = n,
                  !.intervals = @ \cup {[id |-> n, userId |-> userId,
                                         unfollowed |-> FALSE]}]

----------------------------------------------------------------------------
\* Join orchestrator.

\* The calls preloadGuildData issues before its first suspension point.
preloadGuildData(channelId, env) ==
    IF env = "unloaded"
    THEN [i \in DOMAIN GuildList |-> Summaries(GuildList[i])]
    ELSE IF env = "nodefault" THEN <<Summaries(GuildOf(channelId))>>
    ELSE <<Preload(GuildOf(channelId))>>

\* A joinVoiceChannel that does not record the channel it was invoked for.
joinVoiceChannelNoRecord(s, channelId, env) ==
    LET a == [id |-> Len(s.attempts) + 1,
              channelId |-> channelId,
              stage |-> IF env = "preload" THEN "preload" ELSE "nav",
              delay |-> IF env = "preload" THEN 0 ELSE preloadDelay,
              overtaken |-> FALSE]
    IN Emit([s EXCEPT !.attempts = Append(@, a)],
            preloadGuildData(channelId, env))

\* An attempt in flight: id is its rank by start among the attempts in
\* flight; stage is what it waits for (the preload, the navigation timer,
\* the connect timer) and delay the delay of that timer.  History only:
\* overtaken, an attempt that the session started later has already issued
\* its connect, for another channel.
joinVoiceChannel(s, channelId, env) ==
    LET a == [id |-> Len(s.attempts) + 1,
              channelId |-> channelId,
              stage |-> IF env = "preload" THEN "preload" ELSE "nav",
              delay |-> IF env = "preload" THEN 0 ELSE preloadDelay,
              overtaken |-> FALSE]
    IN Emit([s EXCEPT !.lastFollowedChannelId = channelId,
                      !.attempts = Append(@, a)],
            preloadGuildData(channelId, env))

Remove(seq, i) == SubSeq(seq, 1, i - 1) \o SubSeq(seq, i + 1, Len(seq))

\* The host fires timers by deadline and, at equal deadlines, by creation:
\* a timer created earlier with a delay that is not longer fires first.
\* Nothing else orders two timers, because the time between two handlers is
\* arbitrary.  (attempts is kept in timer creation order.)
IsTimer(a) == a.stage \in {"nav", "conn"}
Due(seq, i) ==
    /\ IsTimer(seq[i])
    /\ \A j \in 1..(i - 1) : IsTimer(seq[j]) => seq[j].delay > seq[i].delay


\* How the preload of an attempt can end: the request resolves; the request
\* rejects, which preloadGuildData catches; or the promise chain of
\* joinVoiceChannel reaches its catch, because the then callback threw
\* before it set its timer.
PreloadOutcomes == {"resolved", "caught", "fallback"}

\* A preload stage whose fallback runs beside the normal path.
PreloadStageBothPaths(s, i, outcome) ==
    LET a == s.attempts[i]
        a2 == [a EXCEPT !.stage = "nav", !.delay = preloadDelay]
    IN Emit([s EXCEPT !.attempts =
                IF outcome = "resolved" THEN Append(Remove(@, i), a2)
                ELSE Append(Append(Remove(@, i), a2), a2)],
            <<Summaries(GuildOf(a.channelId))>>)

\* The preload of attempt i settles: the summaries are requested, the
\* promise of preloadGuildData resolves and one navigation timer is created
\* with the delay of now, by the then callback or by the fallback.
PreloadStageOn(s, i, outcome) ==
    LET a == s.attempts[i]
        a2 == [a EXCEPT !.stage = "nav", !.delay = preloadDelay]
    IN Emit([s EXCEPT !.attempts = Append(Remove(@, i), a2)],
            (IF outcome = "caught"
             THEN <<DebugLog("preloadGuildData: Error during preload")>> ELSE <<>>)
            \o <<Summaries(GuildOf(a.channelId))>>
            \o (IF outcome = "fallback"
                THEN <<DebugLog("joinVoiceChannel: Preload error, attempting fallback")>>
                ELSE <<>>))

\* The preload of attempt i resolves.
PreloadStage(s, i) == PreloadStageOn(s, i, "resolved")

PreloadSettled(i) ==
    /\ i \in DOMAIN attempts
    /\ attempts[i].stage = "preload"
    /\ Commit(PreloadStage(Cur, i))
    /\ UNCHANGED <<started, disconnectFollow, preloadDelay, enableDebugLogs>>

\* The preload of attempt i fails.
PreloadFails(i, outcome) ==
    /\ i \in DOMAIN attempts
    /\ attempts[i].stage = "preload"
    /\ outcome # "resolved"
    /\ Commit(PreloadStageOn(Cur, i, outcome))
    /\ UNCHANGED <<started, disconnectFollow, preloadDelay, enableDebugLogs>>

\* An exception that leaves a timer callback and reaches the host.
Uncaught(c) == Call("uncaught", c)

\* What the navigation timer's callback does with attempt a.  thr: the
\* navigation call throws; the callback catches it and goes on.
NavStage(s, i, ans, thr) ==
    LET a == s.attempts[i]
        view == canViewChannel(a.channelId, ans)
        a2 == [a EXCEPT !.stage = "conn", !.delay = SettleDelay]
    IN Emit([s EXCEPT !.attempts = Append(Remove(@, i), a2)],
            IF view
            THEN (IF ans.kind = "none"
                  THEN <<DebugLog("not loaded yet, assuming viewable")>>
                  ELSE <<>>) \o <<Navigate(a.channelId)>>
            ELSE <<DebugLog("Cannot view channel, skipping navigation")>>)

NavTimer(i, ans, thr) ==
    /\ i \in DOMAIN attempts
    /\ attempts[i].stage = "nav"
    /\ Due(attempts, i)
    /\ thr => canViewChannel(attempts[i].channelId, ans)
    /\ Commit(NavStage(Cur, i, ans, thr))
    /\ UNCHANGED <<started, disconnectFollow, preloadDelay, enableDebugLogs>>

\* Attempt i leaves the attempts in flight; connected: it issued its connect.
Finish(seq, i, connected) ==
    LET a == seq[i]
        rest == Remove(seq, i)
    IN [k \in DOMAIN rest |->
          [rest[k] EXCEPT
              !.id = IF @ > a.id THEN @ - 1 ELSE @,
              !.overtaken = @ \/ ( /\ connected
                                   /\ rest[k].id < a.id
                                   /\ rest[k].channelId # a.channelId )]]

\* A connect stage that starts the attempt over when it may not join.
ConnStageRetries(s, i, ans, thr) ==
    LET a == s.attempts[i]
        join == canJoinChannel(a.channelId, ans)
        a2 == [a EXCEPT !.stage = "nav", !.delay = preloadDelay]
    IN IF join
       THEN Emit([s EXCEPT !.attempts = Finish(@, i, join)],
                 <<Connect(a.channelId)>>
                 \o (IF thr THEN <<Uncaught(a.channelId)>> ELSE <<>>))
       ELSE Emit([s EXCEPT !.attempts = Append(Remove(@, i), a2)],
                 <<DebugLog("Cannot join channel")>>)

\* What the connect timer's callback does with attempt a.  thr: the connect
\* call throws; nothing in the callback catches it.
ConnStage(s, i, ans, thr) ==
    LET a == s.attempts[i]
        join == canJoinChannel(a.channelId, ans)
    IN Emit([s EXCEPT !.attempts = Finish(@, i, join)],
            IF join
            THEN <<Connect(a.channelId)>>
                 \o (IF thr THEN <<Uncaught(a.channelId)>> ELSE <<>>)
            ELSE <<DebugLog("Cannot join channel")>>)

ConnTimer(i, ans, thr) ==
    /\ i \in DOMAIN attempts
    /\ attempts[i].stage = "conn"
    /\ Due(attempts, i)
    /\ thr => canJoinChannel(attempts[i].channelId, ans)
    /\ Commit(ConnStage(Cur, i, ans, thr))
    /\ UNCHANGED <<started, disconnectFollow, preloadDelay, enableDebugLogs>>

----------------------------------------------------------------------------
\* Mutual-guild preloader.

GuildLists ==
    { l \in UNION {[1..n -> Guilds] : n \in 0..Cardinality(Guilds)} :
        \A i, j \in DOMAIN l : i # j => l[i] # l[j] }

\* The synchronous part of preloadMutualGuilds: the profile request is sent.
preloadMutualGuilds(s, userId) ==
    Emit([s EXCEPT !.mutuals = Append(@, [stage |-> "rest", guild |-> None,
                                          todo |-> <<>>])],
         <<Call("profile", userId)>>)

\* The loop over the mutual guilds, from guild list todo up to its next
\* suspension point.  def: the guilds for which the directory has a default
\* channel now.
RECURSIVE mutualLoop(_, _, _, _)
mutualLoop(s, m, todo, def) ==
    IF todo = <<>> THEN s
    ELSE LET g == Head(todo) IN
         IF g \in s.preloadedGuilds THEN mutualLoop(s, m, Tail(todo), def)
         ELSE IF g \in def
         THEN Emit([s EXCEPT !.mutuals =
                        Append(@, [m EXCEPT !.stage = "preload", !.guild = g,
                                            !.todo = Tail(todo)])],
                   <<Preload(g)>>)
         ELSE mutualLoop(Emit(s, <<Summaries(g)>>), m, Tail(todo), def)

MutualRestSettled(i, list, def) ==
    /\ i \in DOMAIN mutuals
    /\ mutuals[i].stage = "rest"
    /\ Commit(mutualLoop([Cur EXCEPT !.mutuals = Remove(@, i)],
                         mutuals[i], list, def))
    /\ UNCHANGED <<started, disconnectFollow, preloadDelay, enableDebugLogs>>

MutualPreloadSettled(i, ok, def) ==
    /\ i \in DOMAIN mutuals
    /\ mutuals[i].stage = "preload"
    /\ LET m == mutuals[i]
           s1 == [Cur EXCEPT !.mutuals = Remove(@, i)]
       IN IF ok
          THEN Commit(Emit([s1 EXCEPT !.preloadedGuilds = @ \cup {m.guild},
                                      !.mutuals = Append(@, [m EXCEPT !.stage = "delay"])],
                           <<Call("cacheAdd", m.guild)>>))
          ELSE Commit(mutualLoop(s1, m, m.todo, def))
    /\ UNCHANGED <<started, disconnectFollow, preloadDelay, enableDebugLogs>>

MutualDelayFires(i, def) ==
    /\ i \in DOMAIN mutuals
    /\ mutuals[i].stage = "delay"
    /\ \A j \in 1..(i - 1) : mutuals[j].stage # "delay"
    /\ LET m == mutuals[i]
           s1 == Emit([Cur EXCEPT !.mutuals = Remove(@, i)],
                      <<Summaries(m.guild)>>)
       IN Commit(mutualLoop(s1, m, m.todo, def))
    /\ UNCHANGED <<started, disconnectFollow, preloadDelay, enableDebugLogs>>

----------------------------------------------------------------------------
\* Context-menu action "Follow user".

\* History only: the loops that were running when an unfollow happened, and
\* the attempts in flight when the followed user changes (they belong to no
\* session any more, so none of them counts as overtaken).
MarkUnfollowed(ts) == {[t EXCEPT !.unfollowed = TRUE] : t \in ts}
EndSession(seq) == [k \in DOMAIN seq |-> [seq[k] EXCEPT !.overtaken = FALSE]]

\* An unfollow that keeps the channel it followed last.
UnfollowBranchKeepsChannel(s) ==
    [s EXCEPT !.followedUserId = None,
              !.intervals = MarkUnfollowed(@),
              !.attempts = EndSession(@)]

\* An unfollow that also leaves the voice channel.
UnfollowBranchDisconnects(s) ==
    Emit([s EXCEPT !.followedUserId = None,
                   !.lastFollowedChannelId = None,
                   !.intervals = MarkUnfollowed(@),
                   !.attempts = EndSession(@)],
         <<Connect(None)>>)

UnfollowBranch(s) ==
    [s EXCEPT !.followedUserId = None,
              !.lastFollowedChannelId = None,
              !.intervals = MarkUnfollowed(@),
              !.attempts = EndSession(@)]

\* A follow that starts a search loop even when the user's channel is known.
FollowBranchAlwaysSearches(s, userId, chanId, env) ==
    LET s1 == [s EXCEPT !.followedUserId = userId,
                        !.lastFollowedChannelId = None,
                        !.attempts = EndSession(@)]
        s2 == Emit(preloadMutualGuilds(s1, userId), <<Query(userId)>>)
    IN IF chanId # None
       THEN startSearching(Emit(joinVoiceChannel(s2, chanId, env),
                                <<Toast("followed")>>), userId)
       ELSE startSearching(s2, userId)

\* chanId: where the voice-state store has the user now; env: what
\* preloadGuildData finds for that channel.
FollowBranch(s, userId, chanId, env) ==
    LET s1 == [s EXCEPT !.followedUserId = userId,
                        !.lastFollowedChannelId = None,
                        !.attempts = EndSession(@)]
        s2 == Emit(preloadMutualGuilds(s1, userId), <<Query(userId)>>)
    IN IF chanId # None
       THEN Emit(joinVoiceChannel(s2, chanId, env), <<Toast("followed")>>)
       ELSE startSearching(s2, userId)

Unfollow(userId) ==
    /\ started
    /\ followedUserId = userId
    /\ Commit(UnfollowBranch(Cur))
    /\ UNCHANGED <<started, disconnectFollow, preloadDelay, enableDebugLogs>>

Follow(userId, chanId, env) ==
    /\ started
    /\ followedUserId # userId
    /\ Len(mutuals) < MaxMutual
    /\ chanId # None => Len(attempts) < MaxJoins
    /\ chanId = None => env = "unloaded"
    /\ Commit(FollowBranch(Cur, userId, chanId, env))
    /\ UNCHANGED <<started, disconnectFollow, preloadDelay, enableDebugLogs>>

----------------------------------------------------------------------------
\* One tick of the search loop's interval timer t.

\* A tick that hands off to joinVoiceChannel and keeps polling.
TickBodyKeepsLoop(s, t, chanId, env) ==
    IF s.followedUserId = None \/ s.followedUserId # t.userId
    THEN stopSearching(Emit(s, <<DebugLog("User unfollowed, stopping search")>>))
    ELSE LET s1 == Emit(s, <<Query(t.userId)>>) IN
         IF chanId # None /\ chanId # s.lastFollowedChannelId
         THEN joinVoiceChannel(Emit(s1, <<Toast("followed")>>), chanId, env)
         ELSE s1

\* A tick that does not compare the channel it finds with
\* lastFollowedChannelId.
TickBodyAlwaysJoins(s, t, chanId, env) ==
    IF s.followedUserId = None \/ s.followedUserId # t.userId
    THEN stopSearching(Emit(s, <<DebugLog("User unfollowed, stopping search")>>))
    ELSE LET s1 == Emit(s, <<Query(t.userId)>>) IN
         IF chanId # None
         THEN joinVoiceChannel(Emit(stopSearching(s1), <<Toast("followed")>>),
                               chanId, env)
         ELSE s1

TickBody(s, t, chanId, env) ==
    IF s.followedUserId = None \/ s.followedUserId # t.userId
    THEN stopSearching(Emit(s, <<DebugLog("User unfollowed, stopping search")>>))
    ELSE LET s1 == Emit(s, <<Query(t.userId)>>) IN
         IF chanId # None /\ chanId # s.lastFollowedChannelId
         THEN joinVoiceChannel(Emit(stopSearching(s1), <<Toast("followed")>>),
                               chanId, env)
         ELSE s1

SearchTick(t, chanId, env) ==
    /\ t \in intervals
    /\ (followedUserId # t.userId \/ chanId = None \/ chanId = lastFollowedChannelId)
           => env = "unloaded"
    /\ followedUserId # t.userId => chanId = None
    /\ LET s == TickBody(Cur, t, chanId, env) IN
          /\ Len(s.attempts) <= MaxJoins
          /\ Commit(s)
    /\ UNCHANGED <<started, disconnectFollow, preloadDelay, enableDebugLogs>>

----------------------------------------------------------------------------
\* Event ingestor: flux.VOICE_STATE_UPDATES.

\* A transition of the batch together with what the collaborators answer
\* while it is handled: my, the local user's voice channel; env, what
\* preloadGuildData finds for the transition's channel.
Item(u, c, my, env) == [userId |-> u, channelId |-> c, my |-> my, env |-> env]

\* The transitions that can be delivered, with the answers that are read.
ItemsNow ==
    UNION { IF u # followedUserId
            THEN { Item(u, None, None, "unloaded") }
            ELSE { Item(u, None, my, "unloaded") : my \in Channels \cup {None} }
                 \cup
                 { Item(u, c, None, env) : c \in Channels, env \in JoinEnvs }
          : u \in Users }

\* A new-channel branch that leaves the search loop running.
NewChannelBranchKeepsSearching(s, vs) ==
    IF vs.channelId # s.lastFollowedChannelId
    THEN Emit(joinVoiceChannel(s, vs.channelId, vs.env), <<Toast("followed")>>)
    ELSE Emit(s, <<DebugLog("Already in/following channel")>>)

\* A new-channel branch without the comparison with lastFollowedChannelId.
NewChannelBranchAlways(s, vs) ==
    Emit(joinVoiceChannel(stopSearching(s), vs.channelId, vs.env),
         <<Toast("followed")>>)

NewChannelBranch(s, vs) ==
    IF vs.channelId # s.lastFollowedChannelId
    THEN Emit(joinVoiceChannel(stopSearching(s), vs.channelId, vs.env),
              <<Toast("followed")>>)
    ELSE Emit(s, <<DebugLog("Already in/following channel")>>)

\* A leave branch that does not read the disconnectFollow setting.
LeaveBranchIgnoresFlag(s, vs) ==
    LET s1 == startSearching(s, s.followedUserId) IN
    IF vs.my # None /\ vs.my = s1.lastFollowedChannelId
    THEN [Emit(s1, <<Connect(None)>>) EXCEPT !.lastFollowedChannelId = None]
    ELSE s1

\* A leave branch that does not compare the local user's channel with
\* lastFollowedChannelId.
LeaveBranchAnyChannel(s, vs) ==
    LET s1 == startSearching(s, s.followedUserId) IN
    IF ~disconnectFollow
    THEN Emit(s1, <<DebugLog("disconnectFollow is disabled, staying in channel")>>)
    ELSE IF vs.my # None
    THEN [Emit(s1, <<Connect(None)>>) EXCEPT !.lastFollowedChannelId = None]
    ELSE s1

LeaveBranch(s, vs) ==
    LET s1 == startSearching(s, s.followedUserId) IN
    IF ~disconnectFollow
    THEN Emit(s1, <<DebugLog("disconnectFollow is disabled, staying in channel")>>)
    ELSE IF vs.my # None /\ vs.my = s1.lastFollowedChannelId
    THEN [Emit(s1, <<Connect(None)>>) EXCEPT !.lastFollowedChannelId = None]
    ELSE s1

\* The leave branch ends the whole handler when the flag is off.
LeaveReturns == ~disconnectFollow

\* A handler that does not compare the transition's user with
\* followedUserId.
RECURSIVE HandleUpdatesAnyUser(_, _)
HandleUpdatesAnyUser(s, updates) ==
    IF updates = <<>> THEN s
    ELSE LET vs == Head(updates) IN
         IF vs.channelId # None
         THEN HandleUpdatesAnyUser(NewChannelBranch(s, vs), Tail(updates))
         ELSE IF LeaveReturns THEN LeaveBranch(s, vs)
         ELSE HandleUpdatesAnyUser(LeaveBranch(s, vs), Tail(updates))

RECURSIVE HandleUpdates(_, _)
HandleUpdates(s, updates) ==
    IF updates = <<>> THEN s
    ELSE LET vs == Head(updates) IN
         IF vs.userId # s.followedUserId THEN HandleUpdates(s, Tail(updates))
         ELSE IF vs.channelId # None
         THEN HandleUpdates(NewChannelBranch(s, vs), Tail(updates))
         ELSE IF LeaveReturns THEN LeaveBranch(s, vs)
         ELSE HandleUpdates(LeaveBranch(s, vs), Tail(updates))

Batches == UNION {[1..n -> ItemsNow] : n \in 0..MaxBatch}

\* The handler: nothing is read from the batch while nobody is followed.
AfterUpdates(updates) ==
    IF followedUserId = None THEN Cur ELSE HandleUpdates(Cur, updates)

VoiceStateUpdates(updates) ==
    /\ started
    /\ LET s == AfterUpdates(updates) IN
          /\ Len(s.attempts) <= MaxJoins
          /\ Commit(s)
    /\ UNCHANGED <<started, disconnectFollow, preloadDelay, enableDebugLogs>>

----------------------------------------------------------------------------
\* Settings and lifecycle.

\* A partial settings object: each key is absent ({}) or carries one value.
Partials ==
    [disconnectFollow : {{}, {TRUE}, {FALSE}},
     preloadDelay : {{}} \cup {{d} : d \in PreloadDelayValues},
     enableDebugLogs : {{}, {TRUE}, {FALSE}}]

\* The dashboard's switch "disconnect on leave": updateSettings with that
\* one key.
DisconnectFollowToggle(value) ==
    [disconnectFollow |-> {value}, preloadDelay |-> {}, enableDebugLogs |-> {}]

Pick(field, old) == IF field = {} THEN old ELSE CHOOSE v \in field : TRUE

\* An updateSettings that replaces the whole settings object: a key that is
\* absent falls back to its default.
updateSettingsReplaceAll(newSettings) ==
    /\ disconnectFollow' = Pick(newSettings.disconnectFollow, FALSE)
    /\ preloadDelay' = Pick(newSettings.preloadDelay, DefaultPreloadDelay)
    /\ enableDebugLogs' = Pick(newSettings.enableDebugLogs, FALSE)
    /\ out' = <<>>
    /\ UNCHANGED <<started, followedUserId, lastFollowedChannelId, preloadedGuilds,
                   searchInterval, isSearching, intervals, attempts, mutuals>>
    /\ UNCHANGED hostVars

updateSettings(newSettings) ==
    /\ disconnectFollow' = Pick(newSettings.disconnectFollow, disconnectFollow)
    /\ preloadDelay' = Pick(newSettings.preloadDelay, preloadDelay)
    /\ enableDebugLogs' = Pick(newSettings.enableDebugLogs, enableDebugLogs)
    /\ out' = <<>>
    /\ UNCHANGED <<started, followedUserId, lastFollowedChannelId, preloadedGuilds,
                   searchInterval, isSearching, intervals, attempts, mutuals>>
    /\ UNCHANGED hostVars

\* A reset that keeps the preload cache.
ResetKeepsCache(s) ==
    stopSearching([s EXCEPT !.followedUserId = None,
                            !.lastFollowedChannelId = None,
                            !.attempts = EndSession(@)])

Reset(s) ==
    stopSearching([s EXCEPT !.followedUserId = None,
                            !.lastFollowedChannelId = None,
                            !.preloadedGuilds = {},
                            !.attempts = EndSession(@)])

Start ==
    /\ ~started
    /\ started' = TRUE
    /\ Commit(Reset(Cur))
    /\ UNCHANGED <<disconnectFollow, preloadDelay, enableDebugLogs>>

Stop ==
    /\ started
    /\ started' = FALSE
    /\ Commit(Reset(Cur))
    /\ UNCHANGED <<disconnectFollow, preloadDelay, enableDebugLogs>>

----------------------------------------------------------------------------
\* The GoXLR indicator.  A WebSocket is a record of socks from its
\* construction until its close event has been delivered; ws names the
\* current one and may still name a socket that is gone.  The handlers work
\* on a record g of the module's variables.

SockStates == {"connecting", "open", "closing"}

GCur ==
    [running |-> running, ws |-> ws, reconnectTimer |-> reconnectTimer,
     uiRefreshTimer |-> uiRefreshTimer, socks |-> socks]

GCommit(g) ==
    /\ running' = g.running
    /\ ws' = g.ws
    /\ reconnectTimer' = g.reconnectTimer
    /\ uiRefreshTimer' = g.uiRefreshTimer
    /\ socks' = g.socks
    /\ UNCHANGED <<followVars, hubVars, vcTimers>>

SockIdsOf(ss) == {s.id : s \in ss}

\* The socket is connecting or open: neither closed nor failed.
Healthy(ss, id) == \E s \in ss : s.id = id /\ s.st \in {"connecting", "open"}

\* WebSocket.close(): a connecting or open socket starts closing, any other
\* is left alone.
SockCloseCall(ss, id) ==
    {IF s.id = id /\ s.st # "closing" THEN [s EXCEPT !.st = "closing"] ELSE s :
        s \in ss}

\* A debounced refresh without the running guard.
scheduleUiRefreshUnguarded(g) == [g EXCEPT !.uiRefreshTimer = TRUE]

scheduleUiRefresh(g) ==
    IF ~g.running THEN g ELSE [g EXCEPT !.uiRefreshTimer = TRUE]

\* A reconnect that is armed without the running guard.
scheduleReconnectUnguarded(g) == [g EXCEPT !.reconnectTimer = TRUE]

scheduleReconnect(g) == [g EXCEPT !.reconnectTimer = g.running]

closeWs(g) ==
    IF g.ws = 0 THEN g
    ELSE [g EXCEPT !.socks = SockCloseCall(@, g.ws), !.ws = 0]

FreshSock(g) == CHOOSE n \in 1..(MaxSockets + 1) : n \notin SockIdsOf(g.socks)

\* ok: the WebSocket constructor returns; otherwise it throws and the catch
\* block schedules a reconnect.
openWs(g, ok) ==
    IF ~g.running THEN g
    ELSE LET g1 == closeWs(g)
             n == FreshSock(g1)
         IN IF ok
            THEN [g1 EXCEPT !.ws = n,
                            !.socks = @ \cup {[id |-> n, st |-> "connecting", err |-> FALSE]}]
            ELSE scheduleReconnect(g1)

\* The "open" listener of a socket.
OnOpen(g) == [g EXCEPT !.reconnectTimer = FALSE]

\* The "error" listener of a socket: it closes whichever socket is current.
OnError(g) ==
    IF g.ws = 0 THEN g ELSE [g EXCEPT !.socks = SockCloseCall(@, g.ws)]

\* The "close" listener of a socket.
OnClose(g) == scheduleReconnect(g)

\* start(): the hub calls it only for a sub-plugin it has not started.
gstart(g, ok) ==
    openWs([g EXCEPT !.running = TRUE, !.reconnectTimer = FALSE,
                     !.uiRefreshTimer = FALSE], ok)

gstop(g) ==
    closeWs([g EXCEPT !.running = FALSE, !.reconnectTimer = FALSE,
                      !.uiRefreshTimer = FALSE])

GStart(ok) ==
    /\ ~running
    /\ Cardinality(socks) < MaxSockets
    /\ GCommit(gstart(GCur, ok))
    /\ out' = <<Call("start", "goxlr")>>

GStop ==
    /\ running
    /\ GCommit(gstop(GCur))
    /\ out' = <<Call("stop", "goxlr")>>

\* The connection of socket s is established.
SockOpen(s) ==
    /\ s \in socks
    /\ s.st = "connecting"
    /\ GCommit(OnOpen([GCur EXCEPT !.socks = (@ \ {s}) \cup {[s EXCEPT !.st = "open"]}]))
    /\ out' = <<Call("wsOpen", s.id)>>

\* Socket s fails: the browser starts closing it and fires its error event.
SockError(s) ==
    /\ s \in socks
    /\ ~s.err
    /\ GCommit(OnError([GCur EXCEPT !.socks =
                           (@ \ {s}) \cup {[s EXCEPT !.st = "closing", !.err = TRUE]}]))
    /\ out' = <<Call("wsError", s.id)>>

\* The close event of socket s: the server closed it, or its closing, begun
\* by close() or by a failure, is complete.
SockClose(s) ==
    /\ s \in socks
    /\ GCommit(OnClose([GCur EXCEPT !.socks = @ \ {s}]))
    /\ out' = <<Call("wsClose", s.id)>>

\* The timer's callback; the timer's id stays in reconnectTimer until an
\* open event or the next scheduleReconnect clears it, which changes
\* nothing once it has fired.
ReconnectFires(ok) ==
    /\ reconnectTimer
    /\ Cardinality(socks) < MaxSockets
    /\ GCommit(openWs([GCur EXCEPT !.reconnectTimer = FALSE], ok))
    /\ out' = <<Call("reconnect", ws)>>

\* A message of the current socket, whose listener closeWs has not removed,
\* with or without a change of a button state.
WsMessage(changed) ==
    /\ \E s \in socks : s.id = ws /\ s.st = "open"
    /\ GCommit(IF changed THEN scheduleUiRefresh(GCur) ELSE GCur)
    /\ out' = <<Call("wsMessage", ws)>>

\* The DevTools helpers setBleep and setCough, callable at any time.
ManualSet ==
    /\ GCommit(scheduleUiRefresh(GCur))
    /\ out' = <<Call("manual", "goxlr")>>

\* The mutation observer, attached by start() and disconnected by stop().
DomMutation ==
    /\ running
    /\ GCommit(scheduleUiRefresh(GCur))
    /\ out' = <<Call("mutation", "goxlr")>>

UiRefreshFires ==
    /\ uiRefreshTimer
    /\ GCommit([GCur EXCEPT !.uiRefreshTimer = FALSE])
    /\ out' = <<Call("refreshUi", "goxlr")>>

InitGoXLR ==
    /\ running = FALSE
    /\ ws = 0
    /\ reconnectTimer = FALSE
    /\ uiRefreshTimer = FALSE
    /\ socks = {}

NextGoXLR ==
    \/ \E ok \in BOOLEAN : GStart(ok)
    \/ GStop
    \/ \E s \in socks : SockOpen(s)
    \/ \E s \in socks : SockError(s)
    \/ \E s \in socks : SockClose(s)
    \/ \E ok \in BOOLEAN : ReconnectFires(ok)
    \/ \E changed \in BOOLEAN : WsMessage(changed)
    \/ ManualSet
    \/ DomMutation
    \/ UiRefreshFires

----------------------------------------------------------------------------
\* VC Return.  Its timers all wait one second, so they fire in the order they
\* were set: vcTimers is that queue.  A timer carries, as history, whether
\* stop() has been called since the start() that led to it; stop() itself
\* touches nothing.

vcStart(q) == Append(q, [stage |-> "first", stopped |-> FALSE])

vcStop(q) == [i \in DOMAIN q |-> [q[i] EXCEPT !.stopped = TRUE]]

\* The queue after the callback of timer t, which found the button or not.
VcAfterFire(q, t, found) ==
    IF ~found /\ t.stage = "first" THEN Append(q, [t EXCEPT !.stage = "retry"]) ELSE q

\* The calls of the callback of timer t.
VcFireCalls(t, found) ==
    <<Call("querySelector", t.stage)>>
        \o (IF found THEN <<Call("click", t.stage)>> ELSE <<>>)

VcTimerFires(found) ==
    /\ vcTimers # <<>>
    /\ vcTimers' = VcAfterFire(Tail(vcTimers), Head(vcTimers), found)
    /\ out' = VcFireCalls(Head(vcTimers), found)
    /\ UNCHANGED <<followVars, goxlrVars, hubVars>>

----------------------------------------------------------------------------
\* The hub.  Its handlers work on a record h of everything a lifecycle call
\* can reach: the hub's own settings and started record, and the state of the
\* sub-plugins it starts and stops.  Four of the seven sub-plugins are kept:
\* the three modelled above and selectiveServerLeaver, whose start() and
\* stop() work on the page without a try/catch and so can throw.

SubOrder == <<"followUser", "goxlr", "vcReturn", "selectiveServerLeaver">>
SubKeys == {SubOrder[i] : i \in DOMAIN SubOrder}
Throwing == {"selectiveServerLeaver"}
LifecycleCalls == {"none", "startOk", "startThrew", "stop"}

\* The preloadDelay the hub's start() hands to the follow controller.
HubPreloadDelay == 300

\* The follow settings kept in settings.store: here always the defaults.
StoredFollowSettings == {[disconnectFollow |-> FALSE, enableDebugLogs |-> FALSE]}

HCur ==
    [enabled |-> enabled, startedSubs |-> startedSubs, lastCall |-> lastCall,
     started |-> started, f |-> Cur, g |-> GCur, vc |-> vcTimers,
     disconnectFollow |-> disconnectFollow, preloadDelay |-> preloadDelay,
     enableDebugLogs |-> enableDebugLogs, calls |-> <<>>]

HCommit(h) ==
    /\ enabled' = h.enabled
    /\ startedSubs' = h.startedSubs
    /\ lastCall' = h.lastCall
    /\ started' = h.started
    /\ followedUserId' = h.f.followedUserId
    /\ lastFollowedChannelId' = h.f.lastFollowedChannelId
    /\ preloadedGuilds' = h.f.preloadedGuilds
    /\ searchInterval' = h.f.searchInterval
    /\ isSearching' = h.f.isSearching
    /\ intervals' = h.f.intervals
    /\ attempts' = h.f.attempts
    /\ mutuals' = h.f.mutuals
    /\ running' = h.g.running
    /\ ws' = h.g.ws
    /\ reconnectTimer' = h.g.reconnectTimer
    /\ uiRefreshTimer' = h.g.uiRefreshTimer
    /\ socks' = h.g.socks
    /\ vcTimers' = h.vc
    /\ disconnectFollow' = h.disconnectFollow
    /\ preloadDelay' = h.preloadDelay
    /\ enableDebugLogs' = h.enableDebugLogs
    /\ out' = h.calls

\* The bounds hold in h.
WithinBounds(h) ==
    /\ Cardinality(h.g.socks) <= MaxHubSockets
    /\ Len(h.vc) <= MaxHubTimers
    /\ Len(h.f.attempts) <= MaxJoins

\* subs[k].start() and subs[k].stop() returning normally; the GoXLR
\* indicator gets its WebSocket.
SubStart(h, k) ==
    CASE k = "followUser" -> [h EXCEPT !.started = TRUE, !.f = Reset(@)]
      [] k = "goxlr" -> [h EXCEPT !.g = gstart(@, TRUE)]
      [] k = "vcReturn" -> [h EXCEPT !.vc = vcStart(@)]
      [] OTHER -> h

SubStop(h, k) ==
    CASE k = "followUser" -> [h EXCEPT !.started = FALSE, !.f = Reset(@)]
      [] k = "goxlr" -> [h EXCEPT !.g = gstop(@)]
      [] k = "vcReturn" -> [h EXCEPT !.vc = vcStop(@)]
      [] OTHER -> h

\* The calls a lifecycle handler issues: "start" and "stop" name a call that
\* returned, "startThrew" and "stopThrew" one that threw.

\* A safeStart that marks the sub-plugin started before it calls start().
safeStartMarksFirst(h, k, thr) ==
    IF h.startedSubs[k] THEN h
    ELSE LET h1 == IF k \in thr THEN h ELSE SubStart(h, k)
         IN [h1 EXCEPT !.startedSubs[k] = TRUE,
                       !.lastCall[k] = IF k \in thr THEN "startThrew" ELSE "startOk",
                       !.calls = Append(@, Call(IF k \in thr THEN "startThrew" ELSE "start", k))]

\* thr: the sub-plugins whose call throws.
safeStart(h, k, thr) ==
    IF h.startedSubs[k] THEN h
    ELSE LET h1 == IF k \in thr THEN h ELSE SubStart(h, k)
         IN [h1 EXCEPT !.startedSubs[k] = k \notin thr,
                       !.lastCall[k] = IF k \in thr THEN "startThrew" ELSE "startOk",
                       !.calls = Append(@, Call(IF k \in thr THEN "startThrew" ELSE "start", k))]

safeStop(h, k, thr) ==
    IF ~h.startedSubs[k] THEN h
    ELSE LET h1 == IF k \in thr THEN h ELSE SubStop(h, k)
         IN [h1 EXCEPT !.startedSubs[k] = FALSE,
                       !.lastCall[k] = "stop",
                       !.calls = Append(@, Call(IF k \in thr THEN "stopThrew" ELSE "stop", k))]

RECURSIVE StartEnabled(_, _, _)
StartEnabled(h, keys, thr) ==
    IF keys = <<>> THEN h
    ELSE StartEnabled(IF h.enabled[Head(keys)] THEN safeStart(h, Head(keys), thr) ELSE h,
                      Tail(keys), thr)

RECURSIVE StopStarted(_, _, _)
StopStarted(h, keys, thr) ==
    IF keys = <<>> THEN h
    ELSE StopStarted(IF h.startedSubs[Head(keys)] THEN safeStop(h, Head(keys), thr) ELSE h,
                     Tail(keys), thr)

\* The hub's start(): it mirrors the stored follow settings into the
\* controller, then starts the enabled sub-plugins.
hubStart(h, S, thr) ==
    StartEnabled([h EXCEPT !.disconnectFollow = S.disconnectFollow,
                           !.enableDebugLogs = S.enableDebugLogs,
                           !.preloadDelay = HubPreloadDelay],
                 SubOrder, thr)

hubStop(h, thr) == StopStarted(h, SubOrder, thr)

\* Dashboard.update for the enable switch of sub-plugin k.
update(h, k, value, thr) ==
    LET h1 == [h EXCEPT !.enabled[k] = value]
    IN IF value THEN safeStart(h1, k, thr) ELSE safeStop(h1, k, thr)

\* The follow handler throws where it first touches a transition of the
\* followed user (its console.log), before it has changed anything.
CanThrow(h, payload) ==
    /\ h.f.followedUserId # None
    /\ \E i \in DOMAIN payload : payload[i].userId = h.f.followedUserId

FollowHandler(h, payload) ==
    IF h.f.followedUserId = None THEN h.f ELSE HandleUpdates(h.f, payload)

\* A forwarding with one try/catch around both handlers.
ForwardSharedCatch(h, payload, thr) ==
    LET h1 == IF ~h.enabled["followUser"] THEN h
              ELSE IF thr
              THEN [h EXCEPT !.calls = @ \o <<Call("forward", "followUser"),
                                              Call("caught", "followUser")>>]
              ELSE LET f == FollowHandler(h, payload)
                   IN [h EXCEPT !.f = [f EXCEPT !.out = <<>>],
                                !.calls = @ \o <<Call("forward", "followUser")>> \o f.out]
    IN IF h1.enabled["vcReturn"] /\ ~(h.enabled["followUser"] /\ thr)
       THEN [h1 EXCEPT !.calls = Append(@, Call("forward", "vcReturn"))]
       ELSE h1

\* The hub's VOICE_STATE_UPDATES: each handler in a try/catch of its own.
Forward(h, payload, thr) ==
    LET h1 == IF ~h.enabled["followUser"] THEN h
              ELSE IF thr
              THEN [h EXCEPT !.calls = @ \o <<Call("forward", "followUser"),
                                              Call("caught", "followUser")>>]
              ELSE LET f == FollowHandler(h, payload)
                   IN [h EXCEPT !.f = [f EXCEPT !.out = <<>>],
                                !.calls = @ \o <<Call("forward", "followUser")>> \o f.out]
    IN IF h1.enabled["vcReturn"]
       THEN [h1 EXCEPT !.calls = Append(@, Call("forward", "vcReturn"))]
       ELSE h1

HubStart(S, thr) ==
    /\ WithinBounds(hubStart(HCur, S, thr))
    /\ HCommit(hubStart(HCur, S, thr))

HubStop(thr) == HCommit(hubStop(HCur, thr))

Toggle(k, value, thr) ==
    /\ WithinBounds(update(HCur, k, value, thr))
    /\ HCommit(update(HCur, k, value, thr))

HubVoiceStateUpdates(payload, thr) ==
    /\ thr => (enabled["followUser"] /\ CanThrow(HCur, payload))
    /\ WithinBounds(Forward(HCur, payload, thr))
    /\ HCommit(Forward(HCur, payload, thr))

InitHub ==
    /\ enabled = [k \in SubKeys |-> FALSE]
    /\ startedSubs = [k \in SubKeys |-> FALSE]
    /\ lastCall = [k \in SubKeys |-> "none"]

InitHost ==
    /\ InitGoXLR
    /\ InitHub
    /\ vcTimers = <<>>

----------------------------------------------------------------------------

Init ==
    /\ started = FALSE
    /\ disconnectFollow = FALSE
    /\ preloadDelay = DefaultPreloadDelay
    /\ enableDebugLogs = FALSE
    /\ followedUserId = None
    /\ lastFollowedChannelId = None
    /\ preloadedGuilds = {}
    /\ searchInterval = 0
    /\ isSearching = FALSE
    /\ intervals = {}
    /\ attempts = <<>>
    /\ mutuals = <<>>
    /\ out = <<>>
    /\ InitHost

\* The handlers the host can invoke.  Here the profile request reports no
\* mutual guild and the settings change through the dashboard's
\* disconnect switch.
Next ==
    \/ Start
    \/ Stop
    \/ \E v \in BOOLEAN : updateSettings(DisconnectFollowToggle(v))
    \/ \E u \in Users : Unfollow(u)
    \/ \E u \in Users, c \in Channels \cup {None}, e \in JoinEnvs : Follow(u, c, e)
    \/ \E t \in intervals, c \in Channels \cup {None}, e \in JoinEnvs : SearchTick(t, c, e)
    \/ \E b \in Batches : VoiceStateUpdates(b)
    \/ \E i \in DOMAIN attempts : PreloadSettled(i)
    \/ \E i \in DOMAIN attempts, a \in DirAnswers, thr \in BOOLEAN :
          NavTimer(i, a, thr)
    \/ \E i \in DOMAIN attempts, a \in DirAnswers, thr \in BOOLEAN :
          ConnTimer(i, a, thr)
    \/ \E i \in DOMAIN mutuals : MutualRestSettled(i, <<>>, {})

Spec == Init /\ [][Next]_vars

\* The same host when every partial settings object is offered to
\* updateSettings while sessions and join attempts come and go; no
\* voice-state batch and no search tick is delivered.
NextSettings ==
    \/ Start
    \/ Stop
    \/ \E p \in Partials : updateSettings(p)
    \/ \E u \in Users : Unfollow(u)
    \/ \E u \in Users, c \in Channels \cup {None}, e \in JoinEnvs : Follow(u, c, e)
    \/ \E i \in DOMAIN attempts : PreloadSettled(i)
    \/ \E i \in DOMAIN attempts, a \in DirAnswers, thr \in BOOLEAN :
          NavTimer(i, a, thr)
    \/ \E i \in DOMAIN attempts, a \in DirAnswers, thr \in BOOLEAN :
          ConnTimer(i, a, thr)
    \/ \E i \in DOMAIN mutuals : MutualRestSettled(i, <<>>, {})

SpecSettings == Init /\ [][NextSettings]_vars

\* The same host when the profile request reports mutual guilds, so that the
\* preloader fills preloadedGuilds, with the settings left alone and no
\* join timer fired.
NextCache ==
    \/ Start
    \/ Stop
    \/ \E u \in Users : Unfollow(u)
    \/ \E u \in Users, c \in Channels \cup {None}, e \in JoinEnvs : Follow(u, c, e)
    \/ \E i \in DOMAIN mutuals, l \in GuildLists, def \in SUBSET Guilds :
          MutualRestSettled(i, l, def)
    \/ \E i \in DOMAIN mutuals, ok \in BOOLEAN, def \in SUBSET Guilds :
          MutualPreloadSettled(i, ok, def)
    \/ \E i \in DOMAIN mutuals, def \in SUBSET Guilds : MutualDelayFires(i, def)

SpecCache == Init /\ [][NextCache]_vars

\* The same host while every followed user who is polled sits in a voice
\* channel: a tick of a loop for the followed user reads a channel, never
\* "none".  The interval timer keeps firing every 2 s and each setTimeout
\* and each preload promise of an attempt completes, which is the fairness
\* stated here; events and menu actions may or may not arrive.
PollTick ==
    \E t \in intervals, c \in Channels \cup {None}, e \in JoinEnvs :
        /\ t.userId = followedUserId => c # None
        /\ SearchTick(t, c, e)

AttemptStep ==
    \/ \E i \in DOMAIN attempts : PreloadSettled(i)
    \/ \E i \in DOMAIN attempts, a \in DirAnswers, thr \in BOOLEAN :
          NavTimer(i, a, thr)
    \/ \E i \in DOMAIN attempts, a \in DirAnswers, thr \in BOOLEAN :
          ConnTimer(i, a, thr)

NextOccupied ==
    \/ Start
    \/ \E u \in Users : Unfollow(u)
    \/ \E u \in Users, c \in Channels \cup {None}, e \in JoinEnvs : Follow(u, c, e)
    \/ \E b \in Batches : VoiceStateUpdates(b)
    \/ PollTick
    \/ AttemptStep
    \/ \E i \in DOMAIN mutuals : MutualRestSettled(i, <<>>, {})

SpecOccupied ==
    /\ Init
    /\ [][NextOccupied]_vars
    /\ WF_vars(PollTick)
    /\ WF_vars(AttemptStep)

\* The join attempts with preloads that fail.
NextPreload ==
    \/ Start
    \/ \E u \in Users, c \in Channels \cup {None}, e \in JoinEnvs : Follow(u, c, e)
    \/ \E i \in DOMAIN attempts : PreloadSettled(i)
    \/ \E i \in DOMAIN attempts, outcome \in PreloadOutcomes : PreloadFails(i, outcome)
    \/ \E i \in DOMAIN attempts, a \in DirAnswers, thr \in BOOLEAN :
          NavTimer(i, a, thr)
    \/ \E i \in DOMAIN attempts, a \in DirAnswers, thr \in BOOLEAN :
          ConnTimer(i, a, thr)
    \/ \E i \in DOMAIN mutuals : MutualRestSettled(i, <<>>, {})

SpecPreload == Init /\ [][NextPreload]_vars

\* The GoXLR indicator alone, started and stopped as the hub does.
SpecGoXLR == Init /\ [][NextGoXLR]_vars

\* The batches delivered to the hub here: at most one transition, a leave.
HubPayloads ==
    {b \in Batches : Len(b) <= 1 /\ \A i \in DOMAIN b : b[i].channelId = None}

\* The hub with its sub-plugins: lifecycle calls, dashboard switches and
\* forwarded batches, while user A can be followed before they have joined
\* a channel, sockets close and the VC Return timers fire.
NextHub ==
    \/ \E S \in StoredFollowSettings, thr \in SUBSET Throwing : HubStart(S, thr)
    \/ \E thr \in SUBSET Throwing : HubStop(thr)
    \/ \E k \in SubKeys, value \in BOOLEAN, thr \in SUBSET Throwing : Toggle(k, value, thr)
    \/ \E payload \in HubPayloads, thr \in BOOLEAN : HubVoiceStateUpdates(payload, thr)
    \/ Follow("A", None, "unloaded")
    \/ \E s \in socks : SockClose(s)
    \/ \E found \in BOOLEAN : VcTimerFires(found)

SpecHub == Init /\ [][NextHub]_vars

----------------------------------------------------------------------------
\* Properties of the follow controller.

Range(seq) == {seq[k] : k \in DOMAIN seq}
IsJoinCall(c) == c.call \in {"preload", "navigate", "connect"} /\ c.arg # None
JoinCalls(calls) == SelectSeq(calls, IsJoinCall)
IsPreloadCall(c) == c.call = "preload"
PreloadCalls(calls) == SelectSeq(calls, IsPreloadCall)

\* C1: within one follow session no join attempt issues its connect after an
\* attempt that was started later has issued its connect for another channel
\* (no out-of-order join: the last connect is for the last delivered channel).
NoOutOfOrderJoin ==
    [][\A i \in DOMAIN attempts, ans \in DirAnswers, thr \in BOOLEAN :
          (attempts[i].overtaken /\ ConnTimer(i, ans, thr))
              => Connect(attempts[i].channelId) \notin Range(out')]_vars

\* C2: every navigate and every connect that a join stage issues is for the
\* channel that is lastFollowedChannelId at that moment; a stage whose
\* channel is no longer lastFollowedChannelId issues neither.
StageUsesLastKnownChannel ==
    \A k \in DOMAIN out :
        (out[k].call \in {"navigate", "connect"} /\ out[k].arg # None)
            => out[k].arg = lastFollowedChannelId

\* C3: once stop() has run, no callback that was scheduled before it issues
\* a navigate or a connect: while the controller is stopped none is issued.
NoEffectAfterStop ==
    ~started => \A k \in DOMAIN out : out[k].call \notin {"navigate", "connect"}

\* C4: when follow(B) is invoked while another identity A is followed, A's
\* session is removed: afterwards no search timer of A exists, and searching
\* is true only if B's own search loop was started.
FollowReplacesSession ==
    [][\A u \in Users, c \in Channels \cup {None}, e \in JoinEnvs :
          (followedUserId \notin {None, u} /\ Follow(u, c, e))
              => /\ \A t \in intervals' : t.userId = u
                 /\ isSearching' <=> (c = None)]_vars

\* C5: a search loop that was active when unfollow() happened performs no
\* further query and invokes no join: its next tick stops it without
\* querying.
UnfollowStopsPolling ==
    [][\A t \in intervals, c \in Channels \cup {None}, e \in JoinEnvs :
          (t.unfollowed /\ SearchTick(t, c, e))
              => /\ Query(t.userId) \notin Range(out')
                 /\ attempts' = attempts
                 /\ t \notin intervals']_vars

\* C6: in every reachable state, searching implies that somebody is followed.
SearchingImpliesTarget == isSearching => followedUserId # None

\* The transitions of the followed user in a batch.
OfTarget(b) == {k \in DOMAIN b : b[k].userId = followedUserId}
\* The first transition of the followed user in the batch is a leave.
LeaveFirst(b) ==
    \E k \in OfTarget(b) :
        b[k].channelId = None /\ \A j \in OfTarget(b) : j >= k
\* The only transition of the followed user in the batch is a leave.
OnlyLeave(b) ==
    \E k \in OfTarget(b) : b[k].channelId = None /\ OfTarget(b) = {k}
\* In r a search loop for user u runs, on a timer of its own.
SearchStarted(r, u) ==
    /\ r.isSearching
    /\ \E t \in r.intervals :
          /\ t = [id |-> r.searchInterval, userId |-> u, unfollowed |-> FALSE]
          /\ r.intervals \ {t} = {x \in intervals : x.id # searchInterval}
\* r differs from the current state in the search loop and the calls only.
OnlySearchChanged(r) ==
    /\ r.followedUserId = followedUserId
    /\ r.preloadedGuilds = preloadedGuilds
    /\ r.attempts = attempts
    /\ r.mutuals = mutuals

\* C7: while disconnectFollow is false, handling a leave of the followed user
\* issues no connect(none) and leaves lastFollowedChannelId unchanged; the
\* only effect is that a search loop for the user is started.
LeaveWithoutFlagOnlySearches ==
    \A b \in Batches :
        (~disconnectFollow /\ followedUserId # None /\ LeaveFirst(b)) =>
            LET r == AfterUpdates(b) IN
            /\ r.out = <<Toast("searching"),
                         DebugLog("disconnectFollow is disabled, staying in channel")>>
            /\ r.lastFollowedChannelId = lastFollowedChannelId
            /\ OnlySearchChanged(r)
            /\ SearchStarted(r, followedUserId)

\* C7, reached: a leave was handled with the flag off while a channel was
\* being followed.
LeaveWithoutFlagHandled ==
    /\ ~disconnectFollow
    /\ lastFollowedChannelId # None
    /\ isSearching
    /\ out = <<Toast("searching"),
               DebugLog("disconnectFollow is disabled, staying in channel")>>

\* C8: on a leave of the followed user the local user is disconnected and
\* lastFollowedChannelId becomes none if and only if disconnectFollow is true
\* and the local user's channel is non-empty and equal to
\* lastFollowedChannelId; in every case a search loop for the user is started.
DisconnectIffFlagAndSameChannel ==
    \A b \in Batches :
        (followedUserId # None /\ OnlyLeave(b)) =>
            LET vs == b[CHOOSE k \in OfTarget(b) : TRUE]
                r == AfterUpdates(b)
                same == /\ disconnectFollow
                        /\ vs.my # None
                        /\ vs.my = lastFollowedChannelId
            IN /\ (Connect(None) \in Range(r.out)) <=> same
               /\ r.lastFollowedChannelId =
                      IF same THEN None ELSE lastFollowedChannelId
               /\ JoinCalls(r.out) = <<>>
               /\ OnlySearchChanged(r)
               /\ SearchStarted(r, followedUserId)

\* C8, reached: a leave disconnected the local user and started the search.
LeaveDisconnected ==
    /\ disconnectFollow
    /\ out = <<Toast("searching"), Connect(None)>>
    /\ lastFollowedChannelId = None
    /\ isSearching

\* C9: a batch in which every transition of the followed user carries the
\* channel that is lastFollowedChannelId starts no join attempt, issues no
\* preload, navigate or connect, and changes no field of the session.
SameChannelEventIsNoOp ==
    \A b \in Batches :
        ( /\ followedUserId # None
          /\ lastFollowedChannelId # None
          /\ OfTarget(b) # {}
          /\ \A k \in OfTarget(b) : b[k].channelId = lastFollowedChannelId ) =>
            LET r == AfterUpdates(b) IN
            /\ JoinCalls(r.out) = <<>>
            /\ Connect(None) \notin Range(r.out)
            /\ [r EXCEPT !.out = <<>>] = Cur

\* C9, reached: an event for the channel already followed was handled while
\* its attempt was in flight.
SameChannelEventHandled ==
    /\ lastFollowedChannelId # None
    /\ attempts # <<>>
    /\ out \in {<<DebugLog("Already in/following channel")>>,
                <<DebugLog("Already in/following channel"),
                  DebugLog("Already in/following channel")>>}

\* The directory answers with which a channel may be viewed and joined.
Permitted == {a \in DirAnswers : canViewChannel("c1", a) /\ canJoinChannel("c1", a)}
\* What preloadGuildData can find for a channel that is loaded.
LoadedEnvs == {"nodefault", "preload"}
\* In r the attempt that was attempts[i] is the newest timer, at the stage.
MovedTo(r, i, stage) ==
    /\ Len(r.attempts) = Len(attempts)
    /\ r.attempts[Len(r.attempts)].stage = stage
    /\ r.attempts[Len(r.attempts)].channelId = attempts[i].channelId
    /\ r.attempts[Len(r.attempts)].id = attempts[i].id

\* C10 as stated: an event of the followed user for a loaded channel other
\* than lastFollowedChannelId issues exactly one preload request, for the
\* channel's guild.
EventPreloadsOnce ==
    \A c \in Channels, env \in LoadedEnvs :
        (followedUserId # None /\ c # lastFollowedChannelId) =>
            PreloadCalls(AfterUpdates(<<Item(followedUserId, c, None, env)>>).out)
                = <<Preload(GuildOf(c))>>

\* C10, amended: such an event starts one attempt, which requests the preload
\* of the channel's guild exactly once if the guild has a default channel and
\* never otherwise; the attempt then, view and connect permitted, issues
\* exactly one navigate and after it exactly one connect for the channel and
\* is over; the same event delivered a second time issues none of the three.
EventJoinsOnceInOrder ==
    /\ \A c \in Channels, env \in LoadedEnvs :
          (followedUserId # None /\ c # lastFollowedChannelId) =>
              LET vs == Item(followedUserId, c, None, env)
                  r == AfterUpdates(<<vs>>)
                  twice == AfterUpdates(<<vs, vs>>)
                  new == r.attempts[Len(r.attempts)]
              IN /\ r.attempts = Append(attempts, new)
                 /\ new.channelId = c
                 /\ new.stage = IF env = "preload" THEN "preload" ELSE "nav"
                 /\ r.lastFollowedChannelId = c
                 /\ JoinCalls(r.out) = IF env = "preload"
                                       THEN <<Preload(GuildOf(c))>> ELSE <<>>
                 /\ twice.attempts = r.attempts
                 /\ JoinCalls(twice.out) = JoinCalls(r.out)
    /\ \A i \in DOMAIN attempts, ans \in Permitted, thr \in BOOLEAN :
          LET a == attempts[i] IN
          /\ a.stage = "preload" =>
                LET r == PreloadStage(Cur, i) IN
                JoinCalls(r.out) = <<>> /\ MovedTo(r, i, "nav")
          /\ a.stage = "nav" =>
                LET r == NavStage(Cur, i, ans, thr) IN
                JoinCalls(r.out) = <<Navigate(a.channelId)>> /\ MovedTo(r, i, "conn")
          /\ a.stage = "conn" =>
                LET r == ConnStage(Cur, i, ans, thr) IN
                /\ JoinCalls(r.out) = <<Connect(a.channelId)>>
                /\ Len(r.attempts) = Len(attempts) - 1
                /\ \A k \in DOMAIN r.attempts : r.attempts[k].id # Len(attempts)

\* C10, reached: an event of the followed user for the loaded channel c1 has
\* started an attempt, with the one preload request for c1's guild.
EventStartedJoin ==
    /\ followedUserId # None
    /\ lastFollowedChannelId = "c1"
    /\ ~isSearching
    /\ attempts # <<>>
    /\ attempts[Len(attempts)].channelId = "c1"
    /\ attempts[Len(attempts)].stage = "preload"
    /\ out = <<Preload("g1"), Toast("followed")>>

\* C11: the connect stage issues the connect for its channel exactly when the
\* directory holds a record for the channel that is private or grants view
\* and connect; with no record, with view or connect denied, or when the
\* permission query throws, the stage issues no connect and the attempt is over.
ConnectOnlyWithConfirmedPermission ==
    \A i \in DOMAIN attempts, ans \in DirAnswers, thr \in BOOLEAN :
        attempts[i].stage = "conn" =>
            LET a == attempts[i]
                r == ConnStage(Cur, i, ans, thr)
                confirmed == \/ ans.kind = "private"
                             \/ ans.kind = "guild" /\ ans.view /\ ans.connect
            IN /\ JoinCalls(r.out) =
                      IF confirmed THEN <<Connect(a.channelId)>> ELSE <<>>
               /\ Len(r.attempts) = Len(attempts) - 1

\* C11, reached: a connect stage has fired without confirmed permission and
\* issued nothing; its attempt is over.
ConnectRefused ==
    /\ out = <<DebugLog("Cannot join channel")>>
    /\ attempts = <<>>
    /\ lastFollowedChannelId # None

\* C12: the navigation stage issues the navigate for its channel when the
\* directory has no record of the channel, when the record is private and
\* when it grants view; it skips the navigation only when a record exists
\* and view is denied or when the permission query throws.
NavigateUnlessViewDenied ==
    \A i \in DOMAIN attempts, ans \in DirAnswers, thr \in BOOLEAN :
        attempts[i].stage = "nav" =>
            LET a == attempts[i]
                r == NavStage(Cur, i, ans, thr)
                skipped == \/ ans.kind = "guild" /\ ~ans.view
                           \/ ans.kind = "throws"
            IN JoinCalls(r.out) =
                   IF skipped THEN <<>> ELSE <<Navigate(a.channelId)>>

\* C12, reached: a navigation stage has navigated to a channel of which the
\* directory had no record.
NavigatedWithoutRecord ==
    /\ out = <<DebugLog("not loaded yet, assuming viewable"), Navigate("c2")>>
    /\ attempts # <<>>
    /\ attempts[Len(attempts)].stage = "conn"
    /\ attempts[Len(attempts)].channelId = "c2"

\* C13: unfollow sets followedUserId and lastFollowedChannelId to none and
\* issues no call at all, so no disconnect; and while nobody is followed no
\* handler disconnects the local user.
UnfollowNeverDisconnects ==
    /\ followedUserId # None =>
          LET r == UnfollowBranch(Cur) IN
          /\ r.followedUserId = None
          /\ r.lastFollowedChannelId = None
          /\ r.out = <<>>
    /\ Connect(None) \in Range(out) => followedUserId # None

\* C13, reached: an unfollow has happened during a search, with the
\* disconnect flag on, and nobody has been followed since.
UnfollowHandled ==
    /\ started
    /\ disconnectFollow
    /\ followedUserId = None
    /\ lastFollowedChannelId = None
    /\ \E t \in intervals : t.unfollowed
    /\ out = <<>>

\* The navigate and connect calls among calls.
IsMoveCall(c) == c.call \in {"navigate", "connect"} /\ c.arg # None
MoveCalls(calls) == SelectSeq(calls, IsMoveCall)

\* C14: a join attempt issues at most one navigate and at most one connect
\* and never starts over: whatever the directory answers, its preload stage
\* is followed by its navigation stage, that by its connect stage, and after
\* the connect stage the attempt is gone; no single handler issues more than
\* one navigate or connect, and a navigate comes from an attempt in flight.
AttemptNeverRetries ==
    /\ Len(MoveCalls(out)) <= 1
    /\ \A c \in Channels :
          Navigate(c) \in Range(out) =>
              \E k \in DOMAIN attempts :
                  attempts[k].stage = "conn" /\ attempts[k].channelId = c
    /\ \A i \in DOMAIN attempts, ans \in DirAnswers, thr \in BOOLEAN :
          LET a == attempts[i] IN
          /\ a.stage = "preload" =>
                LET r == PreloadStage(Cur, i) IN
                MoveCalls(r.out) = <<>> /\ MovedTo(r, i, "nav")
          /\ a.stage = "nav" =>
                LET r == NavStage(Cur, i, ans, thr) IN
                /\ MoveCalls(r.out) \in {<<>>, <<Navigate(a.channelId)>>}
                /\ MovedTo(r, i, "conn")
          /\ a.stage = "conn" =>
                LET r == ConnStage(Cur, i, ans, thr) IN
                /\ MoveCalls(r.out) \in {<<>>, <<Connect(a.channelId)>>}
                /\ Len(r.attempts) = Len(attempts) - 1
                /\ \A k \in DOMAIN r.attempts :
                      \E j \in DOMAIN attempts \ {i} :
                          /\ r.attempts[k].channelId = attempts[j].channelId
                          /\ r.attempts[k].stage = attempts[j].stage

\* C14, reached: an attempt whose navigation was refused has moved on to its
\* connect stage.
RefusedNavigationMovedOn ==
    /\ out = <<DebugLog("Cannot view channel, skipping navigation")>>
    /\ Len(attempts) = 1
    /\ attempts[1].stage = "conn"

\* C15: an exception thrown by a collaborator call during a join attempt
\* never leaves the timer callback: no handler ends with an exception that
\* nothing caught.
NoUncaughtException ==
    \A k \in DOMAIN out : out[k].call # "uncaught"

\* C16: updateSettings(partial) sets each key that partial carries to the
\* value given, and leaves every absent key, the follow session, the search
\* loops, the join attempts and the preload cache unchanged.
SettingsChangeOnlyGivenKeys ==
    [][\A p \in Partials :
          updateSettings(p) =>
              /\ p.disconnectFollow # {} => disconnectFollow' \in p.disconnectFollow
              /\ p.disconnectFollow = {} => UNCHANGED disconnectFollow
              /\ p.preloadDelay # {} => preloadDelay' \in p.preloadDelay
              /\ p.preloadDelay = {} => UNCHANGED preloadDelay
              /\ p.enableDebugLogs # {} => enableDebugLogs' \in p.enableDebugLogs
              /\ p.enableDebugLogs = {} => UNCHANGED enableDebugLogs
              /\ UNCHANGED <<started, followedUserId, lastFollowedChannelId,
                             preloadedGuilds, searchInterval, isSearching,
                             intervals, attempts, mutuals>>]_vars

\* C16, reached: during a follow session with a join attempt in flight, the
\* preload delay and the debug switch have been changed and the disconnect
\* flag still has its first value.
SettingsChangedDuringSession ==
    /\ preloadDelay = SettleDelay
    /\ enableDebugLogs
    /\ ~disconnectFollow
    /\ followedUserId # None
    /\ attempts # <<>>
    /\ out = <<>>

\* C17: whatever the state in which start() or stop() is invoked, when it
\* returns nobody is followed, no channel is remembered, the controller is
\* not searching, no search-loop timer exists and the preload cache is empty.
ResetClearsEverything ==
    LET r == Reset(Cur) IN
    /\ r.followedUserId = None
    /\ r.lastFollowedChannelId = None
    /\ ~r.isSearching
    /\ r.searchInterval = 0
    /\ r.intervals = {}
    /\ r.preloadedGuilds = {}

\* C17, reached: the controller was stopped after the mutual-guild preloader
\* had put a guild into the cache (that run still waits for its delay).
StoppedWithPreloaderInFlight ==
    /\ ~started
    /\ followedUserId = None
    /\ lastFollowedChannelId = None
    /\ ~isSearching
    /\ intervals = {}
    /\ preloadedGuilds = {}
    /\ \E i \in DOMAIN mutuals : mutuals[i].stage = "delay"

\* Transitions of users who are not followed, with every answer the
\* collaborators could give while one is handled, and batches of such
\* transitions.
ForeignItems ==
    { Item(u, c, my, env) : u \in Users \ {followedUserId},
                            c \in Channels \cup {None},
                            my \in Channels \cup {None},
                            env \in JoinEnvs }
ForeignBatches ==
    UNION {[1..n -> { Item(u, c, None, "unloaded") :
                        u \in Users \ {followedUserId},
                        c \in Channels \cup {None} }] : n \in 0..MaxBatch}

\* C18: a voice-state transition of a user who is not the followed one, and
\* every transition delivered while nobody is followed, is ignored: the
\* handler changes no session field, no search loop and no join attempt, and
\* issues no call.
ForeignEventIgnored ==
    /\ \A vs \in ForeignItems : AfterUpdates(<<vs>>) = Cur
    /\ \A b \in ForeignBatches : AfterUpdates(b) = Cur
    /\ Cur.out = <<>>

\* C18, reached: a user is followed and searched for, nothing is in flight,
\* and the last handler (as the one of a batch of other users' transitions)
\* issued no call.
SessionUntouched ==
    /\ started
    /\ followedUserId # None
    /\ isSearching
    /\ attempts = <<>>
    /\ mutuals = <<>>
    /\ out = <<>>

\* C19: following a user who is not the followed one asks the voice-state
\* store for the user's channel first; if it has a channel c, one join
\* attempt for c is started and neither a search loop is started nor the
\* search state touched; if it has none, a search loop for the user is
\* started and no join attempt.  Either way the user is the followed one
\* afterwards.
FollowProbesThenJoinsOrSearches ==
    \A u \in Users, c \in Channels \cup {None}, e \in JoinEnvs :
        u # followedUserId =>
            LET r == FollowBranch(Cur, u, c, e) IN
            /\ r.followedUserId = u
            /\ r.out # <<>> /\ r.out[1] = Query(u)
            /\ c # None =>
                  /\ Len(r.attempts) = Len(attempts) + 1
                  /\ SubSeq(r.attempts, 1, Len(attempts)) = EndSession(attempts)
                  /\ r.attempts[Len(r.attempts)].channelId = c
                  /\ r.attempts[Len(r.attempts)].stage \in {"preload", "nav"}
                  /\ r.lastFollowedChannelId = c
                  /\ r.intervals = intervals
                  /\ r.isSearching = isSearching
                  /\ r.searchInterval = searchInterval
                  /\ Toast("searching") \notin Range(r.out)
            /\ c = None =>
                  /\ SearchStarted(r, u)
                  /\ r.attempts = EndSession(attempts)
                  /\ r.lastFollowedChannelId = None
                  /\ JoinCalls(r.out) = <<>>

\* C19, reached: user A was followed while in channel c1 of a loaded guild:
\* the probe, the attempt's preload request, and no search loop.
FollowedKnownChannel ==
    /\ followedUserId = "A"
    /\ lastFollowedChannelId = "c1"
    /\ out = <<Query("A"), Preload("g1"), Toast("followed")>>
    /\ ~isSearching
    /\ intervals = {}
    /\ attempts # <<>>
    /\ attempts[Len(attempts)].channelId = "c1"

\* C20: every transition of the followed user in one batch is handled, in
\* batch order: handling a batch of two transitions gives what handling the
\* first and then the second gives, also when the first is a leave, whatever
\* disconnectFollow is.
BatchHandledInOrder ==
    \A b \in Batches :
        (followedUserId # None /\ Len(b) = 2) =>
            AfterUpdates(b) = HandleUpdates(AfterUpdates(<<b[1]>>), <<b[2]>>)

\* C21: with disconnectFollow on, after a leave of the followed user has been
\* handled, a join attempt still in flight for the channel the user has just
\* left issues no connect: whatever the directory answers, the connect timer
\* of such an attempt, firing next, leaves the local user where it is.
NoConnectAfterLeave ==
    \A my \in Channels \cup {None} :
        (disconnectFollow /\ followedUserId # None /\ lastFollowedChannelId # None) =>
            LET r == AfterUpdates(<<Item(followedUserId, None, my, "unloaded")>>) IN
            \A i \in DOMAIN r.attempts, ans \in DirAnswers, thr \in BOOLEAN :
                ( /\ r.attempts[i].stage = "conn"
                  /\ r.attempts[i].channelId = lastFollowedChannelId ) =>
                    Connect(lastFollowedChannelId)
                        \notin Range(ConnStage(r, i, ans, thr).out)

\* A search loop for the followed user is running.
SearchingForTarget ==
    /\ isSearching
    /\ followedUserId # None
    /\ \E t \in intervals : t.id = searchInterval /\ t.userId = followedUserId

\* C22: if from some point on the followed user is always in a voice
\* channel (no leave is handled and no probe finds the user absent, so no
\* search is started any more, and every tick reads a channel), then a search
\* loop that runs for the followed user eventually stops.
SearchStopsOnceOccupied ==
    (<>[](Toast("searching") \notin Range(out)))
        => (SearchingForTarget ~> ~isSearching)

\* C23: no search-loop timer exists when a handler that starts a join
\* attempt returns (the follow probe that finds a channel, an event with a
\* new channel, a tick that finds a new channel), nor when unfollow returns.
JoinStartStopsSearch ==
    /\ \A u \in Users, c \in Channels, e \in JoinEnvs :
          u # followedUserId => FollowBranch(Cur, u, c, e).intervals = {}
    /\ followedUserId # None => UnfollowBranch(Cur).intervals = {}
    /\ \A c \in Channels, e \in JoinEnvs :
          (followedUserId # None /\ c # lastFollowedChannelId) =>
              AfterUpdates(<<Item(followedUserId, c, None, e)>>).intervals = {}
    /\ \A t \in intervals, c \in Channels, e \in JoinEnvs :
          (t.userId = followedUserId /\ c # lastFollowedChannelId) =>
              TickBody(Cur, t, c, e).intervals = {}

\* C24: at every moment at most one search-loop interval timer exists, and
\* it is the one searchInterval names.
AtMostOneSearchTimer ==
    /\ Cardinality(intervals) <= 1
    /\ \A t \in intervals : t.id = searchInterval
    /\ isSearching <=> intervals # {}

\* C24, reached: two leaves of the followed user were handled in one batch
\* (each started a search) and one timer exists.
TwoLeavesOneTimer ==
    /\ out = <<Toast("searching"), Toast("searching")>>
    /\ isSearching
    /\ Cardinality(intervals) = 1

\* C25: lastFollowedChannelId is set only while a user is followed; unfollow,
\* start and stop leave it "none", a follow of another user leaves it "none"
\* or the channel its own probe has just found for the new user, and neither
\* a tick of a loop for another user nor an event of another user sets it.
LastChannelNeedsTarget ==
    /\ lastFollowedChannelId # None => followedUserId # None
    /\ followedUserId # None => UnfollowBranch(Cur).lastFollowedChannelId = None
    /\ Reset(Cur).lastFollowedChannelId = None
    /\ \A u \in Users, c \in Channels \cup {None}, e \in JoinEnvs :
          u # followedUserId =>
              FollowBranch(Cur, u, c, e).lastFollowedChannelId = c
    /\ \A t \in intervals, c \in Channels \cup {None}, e \in JoinEnvs :
          t.userId # followedUserId =>
              LET r == TickBody(Cur, t, c, e) IN
              /\ r.lastFollowedChannelId = lastFollowedChannelId
              /\ r.attempts = attempts
    /\ \A u \in Users, c \in Channels \cup {None}, e \in JoinEnvs :
          u # followedUserId =>
              AfterUpdates(<<Item(u, c, None, e)>>).lastFollowedChannelId
                  = lastFollowedChannelId

\* C25, reached: after an unfollow during a search, with an attempt of the
\* ended session still in flight, no channel is remembered.
UnfollowedWithAttemptInFlight ==
    /\ followedUserId = None
    /\ lastFollowedChannelId = None
    /\ attempts # <<>>
    /\ \E t \in intervals : t.unfollowed

\* C26: once an event with a new channel of the followed user has been
\* handled, no search-loop timer that existed before is left, so none of its
\* ticks can invoke joinVoiceChannel; and a tick that reads the channel of
\* the event starts nothing.
PushEventEndsSearch ==
    \A c \in Channels, e \in JoinEnvs :
        (followedUserId # None /\ c # lastFollowedChannelId) =>
            LET r == AfterUpdates(<<Item(followedUserId, c, None, e)>>) IN
            /\ r.intervals = {}
            /\ ~r.isSearching
            /\ r.searchInterval = 0
            /\ r.lastFollowedChannelId = c
            /\ \A t \in intervals, e2 \in JoinEnvs :
                  LET r2 == TickBody(r, t, c, e2) IN
                  /\ r2.attempts = r.attempts
                  /\ r2.lastFollowedChannelId = c

\* C26, reached: an event moved the followed user to a channel whose guild
\* has nothing to preload, while the profile request of the follow was still
\* pending; one attempt is in flight and no loop runs.
PushEventHandled ==
    /\ followedUserId # None
    /\ out = <<Toast("followed")>>
    /\ intervals = {}
    /\ ~isSearching
    /\ Len(attempts) = 1
    /\ attempts[1].channelId = lastFollowedChannelId
    /\ mutuals # <<>>

\* C27: joinVoiceChannel records its channel as lastFollowedChannelId at
\* once, before the preload settles and before any timer fires, so that
\* while the attempt is in flight an event or a tick of the followed user
\* for the same channel starts no second attempt.
JoinRecordsChannelAtOnce ==
    /\ \A c \in Channels, e \in JoinEnvs, e2 \in JoinEnvs :
          followedUserId # None =>
              LET r == joinVoiceChannel(Cur, c, e) IN
              /\ r.lastFollowedChannelId = c
              /\ r.attempts[Len(r.attempts)].channelId = c
              /\ r.attempts[Len(r.attempts)].stage \in {"preload", "nav"}
              /\ HandleUpdates(r, <<Item(followedUserId, c, None, e2)>>).attempts
                     = r.attempts
              /\ \A t \in r.intervals :
                    TickBody(r, t, c, e2).attempts = r.attempts
    /\ \A i \in DOMAIN attempts, e \in JoinEnvs :
          (followedUserId # None /\ attempts[i].channelId = lastFollowedChannelId) =>
              /\ AfterUpdates(<<Item(followedUserId, attempts[i].channelId,
                                     None, e)>>).attempts = attempts
              /\ \A t \in intervals :
                    TickBody(Cur, t, attempts[i].channelId, e).attempts = attempts

\* C27, reached: while an attempt for lastFollowedChannelId was in flight, a
\* tick of the search loop for the followed user found nothing new.
TickDuringAttempt ==
    /\ followedUserId # None
    /\ lastFollowedChannelId # None
    /\ isSearching
    /\ out = <<Query(followedUserId)>>
    /\ \E i \in DOMAIN attempts : attempts[i].channelId = lastFollowedChannelId

\* C28: a join attempt for a channel whose guild is already in
\* preloadedGuilds issues no preload request for that guild.
NoPreloadOfCachedGuild ==
    \A c \in Channels, e \in JoinEnvs :
        GuildOf(c) \in preloadedGuilds =>
            PreloadCalls(joinVoiceChannel(Cur, c, e).out) = <<>>

\* C29: whenever a preload request of the mutual-guild preloader settles,
\* resolved or rejected, its guild is in preloadedGuilds afterwards.
PreloadedGuildIsCached ==
    [][\A i \in DOMAIN mutuals, ok \in BOOLEAN, def \in SUBSET Guilds :
          MutualPreloadSettled(i, ok, def)
              => mutuals[i].guild \in preloadedGuilds']_vars

\* C30: a tick of a loop started for the user who is followed asks for the
\* user's channel; if there is one and it differs from
\* lastFollowedChannelId, the loop is stopped and joinVoiceChannel is invoked
\* once with it; otherwise nothing is joined and the loop goes on.
TickJoinsNewChannelOnly ==
    \A t \in intervals, c \in Channels \cup {None}, e \in JoinEnvs :
        t.userId = followedUserId =>
            LET r == TickBody(Cur, t, c, e) IN
            /\ r.out[1] = Query(t.userId)
            /\ r.followedUserId = followedUserId
            /\ (c # None /\ c # lastFollowedChannelId) =>
                  /\ t \notin r.intervals
                  /\ ~r.isSearching
                  /\ r.searchInterval = 0
                  /\ Len(r.attempts) = Len(attempts) + 1
                  /\ SubSeq(r.attempts, 1, Len(attempts)) = attempts
                  /\ r.attempts[Len(r.attempts)].channelId = c
                  /\ r.lastFollowedChannelId = c
                  /\ JoinCalls(r.out) =
                        IF e = "preload" THEN <<Preload(GuildOf(c))>> ELSE <<>>
            /\ (c = None \/ c = lastFollowedChannelId) =>
                  /\ r.attempts = attempts
                  /\ r.intervals = intervals
                  /\ r.isSearching = isSearching
                  /\ r.searchInterval = searchInterval
                  /\ r.lastFollowedChannelId = lastFollowedChannelId
                  /\ r.out = <<Query(t.userId)>>

\* C30, reached: a tick found user A in c1, stopped the loop and started the
\* attempt with its preload request.
PollHitJoined ==
    /\ followedUserId = "A"
    /\ lastFollowedChannelId = "c1"
    /\ out = <<Query("A"), Toast("followed"), Preload("g1")>>
    /\ ~isSearching
    /\ intervals = {}
    /\ attempts # <<>>
    /\ attempts[Len(attempts)].channelId = "c1"

----------------------------------------------------------------------------
\* Properties of the GoXLR indicator.

\* C31 (as claimed): while the plugin runs, a current socket that is neither
\* closed nor failed stays current and alive, and no reconnect is armed,
\* except in the step that delivers this socket's own close or error event.
CurrentSocketSurvivesStaleEvents ==
    [][(running /\ running' /\ Healthy(socks, ws)) =>
          \/ out' \in {<<Call("wsError", ws)>>, <<Call("wsClose", ws)>>}
          \/ /\ ws' = ws
             /\ Healthy(socks', ws')
             /\ reconnectTimer' => reconnectTimer]_vars

\* C32: while the plugin is stopped no timer is pending, there is no current
\* socket, every socket still alive is on its way to closed, and openWs
\* opens nothing.
StoppedIsQuiet ==
    ~running =>
        /\ ~reconnectTimer
        /\ ~uiRefreshTimer
        /\ ws = 0
        /\ \A s \in socks : s.st = "closing"
        /\ \A ok \in BOOLEAN : openWs(GCur, ok) = GCur

\* C32, reached: the close event of an old socket was delivered after
\* stop() while another old socket has still to close.
StaleCloseWhileStopped ==
    /\ ~running
    /\ \E id \in 1..(MaxSockets + 1) : out = <<Call("wsClose", id)>>
    /\ socks # {}
    /\ ~reconnectTimer

----------------------------------------------------------------------------
\* Properties of the hub and of VC Return.

\* The started calls and the stopped calls among the calls of a handler.
StartsOf(calls) ==
    {calls[i].arg : i \in {j \in DOMAIN calls : calls[j].call \in {"start", "startThrew"}}}
StopsOf(calls) ==
    {calls[i].arg : i \in {j \in DOMAIN calls : calls[j].call \in {"stop", "stopThrew"}}}

\* C33: a sub-plugin is marked started exactly when the hub's last lifecycle
\* call on it was a start() that returned, and the modelled sub-plugins run
\* exactly when they are marked; whichever calls throw, a dashboard switch,
\* the hub's start() and the hub's stop() call start() only on sub-plugins
\* not marked started and stop() only on marked ones, and after the hub's
\* stop() none is marked.
StartedIffLastStartReturned ==
    /\ \A k \in SubKeys : startedSubs[k] <=> lastCall[k] = "startOk"
    /\ started = startedSubs["followUser"]
    /\ running = startedSubs["goxlr"]
    /\ \A thr \in SUBSET Throwing :
          /\ \A k \in SubKeys, value \in BOOLEAN :
                LET r == update(HCur, k, value, thr) IN
                   /\ StartsOf(r.calls) \subseteq {j \in SubKeys : ~startedSubs[j]}
                   /\ StopsOf(r.calls) \subseteq {j \in SubKeys : startedSubs[j]}
                   /\ r.startedSubs[k] => value
          /\ \A S \in StoredFollowSettings :
                LET r == hubStart(HCur, S, thr) IN
                   /\ StartsOf(r.calls) = {j \in SubKeys : enabled[j] /\ ~startedSubs[j]}
                   /\ StopsOf(r.calls) = {}
          /\ LET r == hubStop(HCur, thr) IN
                /\ StartsOf(r.calls) = {}
                /\ StopsOf(r.calls) = {j \in SubKeys : startedSubs[j]}
                /\ \A j \in SubKeys : ~r.startedSubs[j]

\* C33, reached: the hub's stop() stopped the GoXLR indicator and the server
\* leaver, whose stop() threw, and nothing is marked started.
HubStoppedThoughStopThrew ==
    /\ out = <<Call("stop", "goxlr"), Call("stopThrew", "selectiveServerLeaver")>>
    /\ \A k \in SubKeys : ~startedSubs[k]
    /\ ~running

\* C35: a delivered batch reaches the follow handler exactly when
\* enableFollowUser is set and the VC Return handler exactly when
\* enableVCReturn is set, whether the follow handler throws or not; a throw
\* is caught before the VC Return handler is called.
ForwardedBySetting ==
    \A payload \in HubPayloads, thr \in BOOLEAN :
        (thr => (enabled["followUser"] /\ CanThrow(HCur, payload))) =>
            LET r == Forward(HCur, payload, thr).calls IN
               /\ (Call("forward", "followUser") \in Range(r)) <=> enabled["followUser"]
               /\ (Call("forward", "vcReturn") \in Range(r)) <=> enabled["vcReturn"]
               /\ (Call("caught", "followUser") \in Range(r)) <=> thr
               /\ (thr /\ enabled["vcReturn"]) =>
                      r = <<Call("forward", "followUser"), Call("caught", "followUser"),
                            Call("forward", "vcReturn")>>

\* C35, reached: the follow handler threw on a batch and the batch went on
\* to the VC Return handler.
ForwardedAfterThrow ==
    /\ out = <<Call("forward", "followUser"), Call("caught", "followUser"),
               Call("forward", "vcReturn")>>
    /\ followedUserId = "A"

\* C36 (as claimed): a timer callback that clicks sets no further timer, the
\* retry is set only by a first callback that found no button, and the
\* callback of a timer whose start() has since been followed by stop() does
\* not click.
VcClicksOncePerStartNoneAfterStop ==
    [][(vcTimers # <<>> /\ \E i \in DOMAIN out' : out'[i].call = "querySelector") =>
          LET t == Head(vcTimers)
              clicked == \E i \in DOMAIN out' : out'[i].call = "click"
          IN /\ clicked => vcTimers' = Tail(vcTimers)
             /\ vcTimers' # Tail(vcTimers) =>
                   /\ t.stage = "first"
                   /\ vcTimers' = Append(Tail(vcTimers), [t EXCEPT !.stage = "retry"])
             /\ t.stopped => ~clicked]_vars

----------------------------------------------------------------------------
\* Further properties of the follow controller.

\* C34: however the preload of an attempt ends, the attempt keeps exactly
\* one pending timer, its navigation timer with the preload delay, and has
\* issued neither navigate nor connect; the navigation stage then issues at
\* most one navigate and leaves exactly the connect timer with the settle
\* delay; the connect stage issues at most one connect and ends the attempt.
AttemptSurvivesPreloadFailure ==
    \A i \in DOMAIN attempts, ans \in DirAnswers, thr \in BOOLEAN :
        LET a == attempts[i] IN
        /\ a.stage = "preload" =>
              \A outcome \in PreloadOutcomes :
                 LET r == PreloadStageOn(Cur, i, outcome) IN
                    /\ MoveCalls(r.out) = <<>>
                    /\ r.attempts = Append(Remove(attempts, i),
                                           [a EXCEPT !.stage = "nav",
                                                     !.delay = preloadDelay])
        /\ a.stage = "nav" =>
              LET r == NavStage(Cur, i, ans, thr) IN
                 /\ MoveCalls(r.out) \in {<<>>, <<Navigate(a.channelId)>>}
                 /\ r.attempts = Append(Remove(attempts, i),
                                        [a EXCEPT !.stage = "conn",
                                                  !.delay = SettleDelay])
        /\ a.stage = "conn" =>
              LET r == ConnStage(Cur, i, ans, thr) IN
                 /\ MoveCalls(r.out) \in {<<>>, <<Connect(a.channelId)>>}
                 /\ Len(r.attempts) = Len(attempts) - 1

\* C34, reached: the preload of the only attempt was rejected and the
\* attempt waits on its navigation timer.
PreloadRejectedNavigationPending ==
    /\ out = <<DebugLog("preloadGuildData: Error during preload")>>
    /\ Len(attempts) = 1
    /\ attempts[1].stage = "nav"
    /\ attempts[1].delay = preloadDelay

\* C37: between handlers isSearching holds exactly when searchInterval is
\* set, and this is so after startSearching, after stopSearching, after a
\* tick of any loop timer and after start() or stop(), from the state
\* reached.
SearchingIffTimerSet ==
    /\ isSearching <=> searchInterval # 0
    /\ \A u \in Users :
          LET r == startSearching(Cur, u) IN r.isSearching /\ r.searchInterval # 0
    /\ LET r == stopSearching(Cur) IN ~r.isSearching /\ r.searchInterval = 0
    /\ LET r == Reset(Cur) IN ~r.isSearching /\ r.searchInterval = 0
    /\ \A t \in intervals, c \in Channels \cup {None}, e \in JoinEnvs :
          LET r == TickBody(Cur, t, c, e) IN r.isSearching <=> r.searchInterval # 0

\* C37, reached: a tick found the followed user in no channel and the loop
\* goes on, flag and timer set.
TickKeptSearching ==
    /\ out = <<Query("A")>>
    /\ followedUserId = "A"
    /\ isSearching
    /\ searchInterval # 0
    /\ lastFollowedChannelId = None

====
